---- MODULE Spec2Model ----
(***************************************************************************)
(* ArenaV2 (src/include/arena.h): a monotonic bump-pointer arena with      *)
(* automatic block growth and a chained list of deferred destructors.      *)
(* Addresses and size_t values are machine words of WordBits bits.         *)
(***************************************************************************)
EXTENDS Integers, Sequences, FiniteSets, TLC

\* ------------------------------------------------------------- bounds
WordBits == 14
HeapStart == 16
MaxGap == 1
MaxBlocks == 4
MaxAllocs == 3
MaxMoveBlocks == 4
MaxMoveAllocs == 2
MaxChainBlocks == 3
MaxChainObjs == 34
MaxThrowAllocs == 4
MaxAdapters == 3
MaxAdapterAllocs == 2
MaxWideBlocks == 3
MaxWideAllocs == 3

\* ------------------------------------------------- program constants
DEFAULT_BLOCK_SIZE == 1024
DESTRUCTOR_CHUNK_SIZE == 32
SizeofDestructorNode == 16
SizeofChunkTrailer == 16
AlignofDestructorChunk == 8

NULL == 0

Engines == {"a", "b"}

\* sizeof/alignof of the element types used by the tests (LP64).
IntT == [name |-> "int", size |-> 4, align |-> 4, trivial |-> TRUE]
DoubleT == [name |-> "double", size |-> 8, align |-> 8, trivial |-> TRUE]
TestStruct == [name |-> "TestStruct", size |-> 8, align |-> 4, trivial |-> FALSE]
Types == {IntT, DoubleT, TestStruct}

\* Inputs of the operations.
ConfigSizes == {32}
RawSizes == {0, 40}
RawAligns == {1, 64}

SizeofDestructorChunk == DESTRUCTOR_CHUNK_SIZE * SizeofDestructorNode + SizeofChunkTrailer

\* ------------------------------------------------ machine arithmetic
RECURSIVE Pow2(_)
Pow2(n) == IF n = 0 THEN 1 ELSE 2 * Pow2(n - 1)

WordMax == Pow2(WordBits) - 1

Wrap(x) == x % (WordMax + 1)

RECURSIVE BitAnd(_, _)
BitAnd(x, y) ==
  IF x = 0 \/ y = 0 THEN 0
  ELSE (x % 2) * (y % 2) + 2 * BitAnd(x \div 2, y \div 2)

BitNot(x) == WordMax - x

Max(x, y) == IF x < y THEN y ELSE x

\* The value of a singleton: The({F(x) : x \in {e}}) is F(e) with e computed once.
The(S) == CHOOSE x \in S : TRUE

RECURSIVE Reverse(_)
Reverse(s) == IF s = <<>> THEN <<>> ELSE Append(Reverse(Tail(s)), Head(s))

\* ------------------------------------------------------------- state
VARIABLES
  lifetime,   \* per engine object: "none" (not constructed), "live", "dead"
  arena,      \* per engine object: the fields of ArenaV2
  heap_top,   \* ::operator new hands out buffers above this address
  n_buffers,  \* number of buffers ::operator new has handed out
  freed,      \* buffers given back with ::operator delete
  mem,        \* what has been written into the buffers (objects, chunks)
  allocs,     \* regions handed out by each engine since its last reset
  reqs,       \* per engine: the requests made since its last reset
  prior,      \* per engine: the requests and block count before its last clear()
  next_id,    \* value given to the next constructed object / written datum
  needs_dtor, \* ids of the constructed objects whose type has a destructor
  dtor_count, \* per object id: number of destructor invocations so far
  last,       \* the last operation: its requests, results and events
  adapters,   \* the ArenaAllocator objects made so far, each with the engine
              \* it was first bound to and the adapter it was copied from
  adapter_result  \* what the last call on an adapter returned or threw

vars == <<lifetime, arena, heap_top, n_buffers, freed, mem, allocs, reqs, prior,
          next_id, needs_dtor, dtor_count, last, adapters, adapter_result>>

\* MemBlock(size): the buffer comes from ::operator new, above everything
\* handed out so far and at any distance of up to MaxGap bytes from it; nothing
\* is assumed about the alignment of its base address.
MemBlock(size, top, gap) ==
  [mb |-> [buffer |-> top + gap, size |-> size, offset |-> 0],
   top |-> top + gap + Max(size, 1)]

EmptyArena(bs) ==
  [ destructor_block_tail |-> NULL,
    destructor_block_latest |-> NULL,
    mem_blocks |-> <<>>,
    mem_block_latest_idx |-> 0,
    block_size |-> bs,
    arena_size |-> 0 ]

Cell(addr, size, kind, id) ==
  [addr |-> addr, size |-> size, kind |-> kind, id |-> id,
   nodes |-> <<>>, n_nodes |-> 0, prev |-> NULL]

Overlap(p, n, q, m) == n > 0 /\ m > 0 /\ p < q + m /\ q < p + n

\* Placement-new / store of a cell: whatever shared its bytes is overwritten.
Write(m, c) ==
  IF c.size = 0 THEN m
  ELSE {d \in m : ~Overlap(d.addr, d.size, c.addr, c.size)} \cup {c}

NoChunk == Cell(NULL, 0, "chunk", 0)

\* The DestructorChunk a pointer refers to; a pointer to bytes that hold no
\* chunk (any more) reads as an empty record.
ChunkAt(m, p) ==
  IF \E c \in m : c.addr = p /\ c.kind = "chunk"
  THEN CHOOSE c \in m : c.addr = p /\ c.kind = "chunk"
  ELSE NoChunk

\* The object a pointer refers to (0: no object lives there).
IdAt(m, p) ==
  IF \E c \in m : c.addr = p /\ c.kind = "obj"
  THEN (CHOOSE c \in m : c.addr = p /\ c.kind = "obj").id
  ELSE 0

\* ----------------------------------------------------- the allocator

\* add_mem_block that does not count the new block's bytes (mutant).
add_mem_block_uncounted(a, size, top, gap) ==
  LET nb == MemBlock(size, top, gap)
  IN  [a |-> [a EXCEPT !.mem_blocks = Append(@, nb.mb),
                       !.mem_block_latest_idx = Len(a.mem_blocks)],
       top |-> nb.top]

\* add_mem_block: emplace_back a new MemBlock and make it the active block.
add_mem_block(a, size, top, gap) ==
  LET nb == MemBlock(size, top, gap)
  IN  [a |-> [a EXCEPT !.mem_blocks = Append(@, nb.mb),
                       !.mem_block_latest_idx = Len(a.mem_blocks),
                       !.arena_size = Wrap(@ + size)],
       top |-> nb.top]

\* allocate_from_mem_block without the rounding up (mutant).
allocate_from_mem_block_unrounded(mb, size, align) ==
  LET curr == Wrap(mb.buffer + mb.offset)
      new_offset == Wrap(mb.offset + size)
  IN  IF new_offset > mb.size
      THEN [mb |-> mb, ptr |-> NULL]
      ELSE [mb |-> [mb EXCEPT !.offset = new_offset], ptr |-> curr]

\* allocate_from_mem_block that leaves the padding out of the new offset
\* (mutant).
allocate_from_mem_block_padding_dropped(mb, size, align) ==
  LET curr == Wrap(mb.buffer + mb.offset)
      aligned == BitAnd(Wrap(curr + align - 1), BitNot(Wrap(align - 1)))
      padding == Wrap(aligned - curr)
      new_offset == Wrap(mb.offset + size)
  IN  IF Wrap(new_offset + padding) > mb.size
      THEN [mb |-> mb, ptr |-> NULL]
      ELSE [mb |-> [mb EXCEPT !.offset = new_offset], ptr |-> aligned]

\* allocate_from_mem_block that stores the new offset before the fit check
\* (mutant).
allocate_from_mem_block_commit_first(mb, size, align) ==
  LET curr == Wrap(mb.buffer + mb.offset)
      aligned == BitAnd(Wrap(curr + align - 1), BitNot(Wrap(align - 1)))
      padding == Wrap(aligned - curr)
      new_offset == Wrap(mb.offset + padding + size)
  IN  IF new_offset > mb.size
      THEN [mb |-> [mb EXCEPT !.offset = new_offset], ptr |-> NULL]
      ELSE [mb |-> [mb EXCEPT !.offset = new_offset], ptr |-> aligned]

allocate_from_mem_block(mb, size, align) ==
  LET curr == Wrap(mb.buffer + mb.offset)
      aligned == BitAnd(Wrap(curr + align - 1), BitNot(Wrap(align - 1)))
      padding == Wrap(aligned - curr)
      new_offset == Wrap(mb.offset + padding + size)
  IN  IF new_offset > mb.size
      THEN [mb |-> mb, ptr |-> NULL]
      ELSE [mb |-> [mb EXCEPT !.offset = new_offset], ptr |-> aligned]

\* add_new_block_and_allocate with every new block of the configured size
\* (mutant).
add_new_block_and_allocate_fixed(a, size, align, top, gap) ==
  LET g == add_mem_block(a, a.block_size, top, gap)
      i == g.a.mem_block_latest_idx + 1
      r == allocate_from_mem_block(g.a.mem_blocks[i], size, align)
  IN  [a |-> [g.a EXCEPT !.mem_blocks[i] = r.mb], ptr |-> r.ptr, path |-> "new",
       top |-> g.top]

\* add_new_block_and_allocate whose new block leaves no room for padding
\* (mutant).
add_new_block_and_allocate_tight(a, size, align, top, gap) ==
  LET new_block_size == Max(size, a.block_size)
      g == add_mem_block(a, new_block_size, top, gap)
      i == g.a.mem_block_latest_idx + 1
      r == allocate_from_mem_block(g.a.mem_blocks[i], size, align)
  IN  [a |-> [g.a EXCEPT !.mem_blocks[i] = r.mb], ptr |-> r.ptr, path |-> "new",
       top |-> g.top]

add_new_block_and_allocate(a, size, align, top, gap) ==
  LET new_block_size == Max(Wrap(size + align - 1), a.block_size)
      g == add_mem_block(a, new_block_size, top, gap)
      i == g.a.mem_block_latest_idx + 1
      r == allocate_from_mem_block(g.a.mem_blocks[i], size, align)
  IN  [a |-> [g.a EXCEPT !.mem_blocks[i] = r.mb], ptr |-> r.ptr, path |-> "new",
       top |-> g.top]

\* allocate whose fast path forgets to advance the offset (mutant).
allocate_no_bump(a, size, align, top, gap) ==
  LET i == a.mem_block_latest_idx + 1
      mb == a.mem_blocks[i]
      potential_offset == Wrap(mb.offset + size)
      ptr == Wrap(mb.buffer + mb.offset)
      r == allocate_from_mem_block(mb, size, align)
  IN  IF potential_offset <= mb.size /\ BitAnd(ptr, Wrap(align - 1)) = 0
      THEN [a |-> a, ptr |-> ptr, path |-> "fast", top |-> top]
      ELSE IF r.ptr # NULL
      THEN [a |-> [a EXCEPT !.mem_blocks[i] = r.mb], ptr |-> r.ptr, path |-> "pad",
            top |-> top]
      ELSE add_new_block_and_allocate([a EXCEPT !.mem_blocks[i] = r.mb], size, align,
                                      top, gap)

\* allocate that looks for room in every block, the earliest first (mutant).
allocate_first_fit(a, size, align, top, gap) ==
  IF \E i \in 1..Len(a.mem_blocks) :
       allocate_from_mem_block(a.mem_blocks[i], size, align).ptr # NULL
  THEN The({ [a |-> [a EXCEPT !.mem_blocks[i] =
                        allocate_from_mem_block(a.mem_blocks[i], size, align).mb],
              ptr |-> allocate_from_mem_block(a.mem_blocks[i], size, align).ptr,
              path |-> "pad", top |-> top]
             : i \in {CHOOSE j \in 1..Len(a.mem_blocks) :
                        /\ allocate_from_mem_block(a.mem_blocks[j], size, align).ptr # NULL
                        /\ \A k \in 1..(j - 1) :
                             allocate_from_mem_block(a.mem_blocks[k], size, align).ptr
                               = NULL} })
  ELSE add_new_block_and_allocate(a, size, align, top, gap)

allocate(a, size, align, top, gap) ==
  LET i == a.mem_block_latest_idx + 1
      mb == a.mem_blocks[i]
      potential_offset == Wrap(mb.offset + size)
      ptr == Wrap(mb.buffer + mb.offset)
      r == allocate_from_mem_block(mb, size, align)
  IN  IF potential_offset <= mb.size /\ BitAnd(ptr, Wrap(align - 1)) = 0
      THEN [a |-> [a EXCEPT !.mem_blocks[i].offset = potential_offset],
            ptr |-> ptr, path |-> "fast", top |-> top]
      ELSE IF r.ptr # NULL
      THEN [a |-> [a EXCEPT !.mem_blocks[i] = r.mb], ptr |-> r.ptr, path |-> "pad",
            top |-> top]
      ELSE add_new_block_and_allocate([a EXCEPT !.mem_blocks[i] = r.mb], size, align,
                                      top, gap)

Ret(r, size, align, kind) ==
  [ptr |-> r.ptr, size |-> size, align |-> align, path |-> r.path, kind |-> kind]

\* The new-chunk branch of append_new_destructor without the link to the
\* previous head (mutant).
new_destructor_chunk_unlinked(a, m, top, gap) ==
  The({ [a |-> [r.a EXCEPT !.destructor_block_tail =
                             IF a.destructor_block_latest = NULL THEN r.ptr ELSE @,
                           !.destructor_block_latest = r.ptr],
         m |-> Write(m, Cell(r.ptr, SizeofDestructorChunk, "chunk", 0)),
         rets |-> <<Ret(r, SizeofDestructorChunk, AlignofDestructorChunk, "chunk")>>,
         top |-> r.top]
        : r \in {allocate(a, SizeofDestructorChunk, AlignofDestructorChunk, top, gap)} })

\* append_new_destructor, the branch that takes a new chunk from the arena:
\* placement-new with prev = the old head, tail set on the first chunk, the
\* new chunk becomes the head.
new_destructor_chunk(a, m, top, gap) ==
  The({ [a |-> [r.a EXCEPT !.destructor_block_tail =
                             IF a.destructor_block_latest = NULL THEN r.ptr ELSE @,
                           !.destructor_block_latest = r.ptr],
         m |-> Write(m, [Cell(r.ptr, SizeofDestructorChunk, "chunk", 0)
                           EXCEPT !.prev = a.destructor_block_latest]),
         rets |-> <<Ret(r, SizeofDestructorChunk, AlignofDestructorChunk, "chunk")>>,
         top |-> r.top]
        : r \in {allocate(a, SizeofDestructorChunk, AlignofDestructorChunk, top, gap)} })

\* append_new_destructor, the store of the record into the head chunk.
push_destructor_node(a, m, obj, fn) ==
  The({ Write(m, [head EXCEPT !.nodes = Append(@, [fn |-> fn, obj |-> obj]),
                              !.n_nodes = @ + 1])
        : head \in {ChunkAt(m, a.destructor_block_latest)} })

\* append_new_destructor that takes a new chunk one record early (mutant).
append_new_destructor_early(a, m, obj, fn, top, gap) ==
  IF \/ a.destructor_block_latest = NULL
     \/ ChunkAt(m, a.destructor_block_latest).n_nodes >= DESTRUCTOR_CHUNK_SIZE - 1
  THEN The({ [a |-> c.a, m |-> push_destructor_node(c.a, c.m, obj, fn),
              rets |-> c.rets, top |-> c.top]
             : c \in {new_destructor_chunk(a, m, top, gap)} })
  ELSE [a |-> a, m |-> push_destructor_node(a, m, obj, fn), rets |-> <<>>, top |-> top]

\* append_new_destructor: a new chunk when there is none or the head is full,
\* then the record goes into the head chunk.
append_new_destructor(a, m, obj, fn, top, gap) ==
  IF \/ a.destructor_block_latest = NULL
     \/ ChunkAt(m, a.destructor_block_latest).n_nodes = DESTRUCTOR_CHUNK_SIZE
  THEN The({ [a |-> c.a, m |-> push_destructor_node(c.a, c.m, obj, fn),
              rets |-> c.rets, top |-> c.top]
             : c \in {new_destructor_chunk(a, m, top, gap)} })
  ELSE [a |-> a, m |-> push_destructor_node(a, m, obj, fn), rets |-> <<>>, top |-> top]

\* create<T> that registers a destructor whatever T is (mutant).
create_always_registers(a, m, T, id, top, gap) ==
  The({ The({ [a |-> d.a, m |-> d.m,
               rets |-> <<Ret(r, T.size, T.align, "obj")>> \o d.rets,
               top |-> d.top]
              : d \in {append_new_destructor(
                          r.a, Write(m, Cell(r.ptr, T.size, "obj", id)),
                          r.ptr, T.name, r.top, gap)} })
        : r \in {allocate(a, T.size, T.align, top, gap)} })

\* create<T>(args...): allocate, construct in place, register the destructor
\* unless T is trivially destructible.
create(a, m, T, id, top, gap) ==
  The({ IF T.trivial
        THEN [a |-> r.a, m |-> Write(m, Cell(r.ptr, T.size, "obj", id)),
              rets |-> <<Ret(r, T.size, T.align, "obj")>>, top |-> r.top]
        ELSE The({ [a |-> d.a, m |-> d.m,
                    rets |-> <<Ret(r, T.size, T.align, "obj")>> \o d.rets,
                    top |-> d.top]
                   : d \in {append_new_destructor(
                               r.a, Write(m, Cell(r.ptr, T.size, "obj", id)),
                               r.ptr, T.name, r.top, gap)} })
        : r \in {allocate(a, T.size, T.align, top, gap)} })

\* create<T> that registers the destructor before it constructs the object
\* (mutant).
create_throws_after_registration(a, m, T, top, gap) ==
  The({ The({ [a |-> d.a, m |-> d.m,
               rets |-> <<Ret(r, T.size, T.align, "obj")>> \o d.rets,
               top |-> d.top]
              : d \in {append_new_destructor(
                          r.a, Write(m, Cell(r.ptr, T.size, "wreck", 0)),
                          r.ptr, T.name, r.top, gap)} })
        : r \in {allocate(a, T.size, T.align, top, gap)} })

\* create<T>(args...) when T's constructor throws: the bytes are taken and
\* hold no object, the exception leaves create before the registration.
create_throws(a, m, T, top, gap) ==
  The({ [a |-> r.a, m |-> Write(m, Cell(r.ptr, T.size, "wreck", 0)),
         rets |-> <<Ret(r, T.size, T.align, "obj")>>, top |-> r.top]
        : r \in {allocate(a, T.size, T.align, top, gap)} })

\* The destructor calls with each chunk walked from its first slot to its
\* last (mutant).
RECURSIVE RunDestructors_forward(_, _)
RunDestructors_forward(m, curr) ==
  IF curr = NULL THEN <<>>
  ELSE LET c == ChunkAt(m, curr)
       IN  [i \in 1..c.n_nodes |-> [ev |-> "dtor", x |-> IdAt(m, c.nodes[i].obj)]]
           \o RunDestructors_forward(m, c.prev)

\* The destructor calls of clear(): from the head chunk backwards, within a
\* chunk from the last filled slot to the first.
RECURSIVE RunDestructors(_, _)
RunDestructors(m, curr) ==
  IF curr = NULL THEN <<>>
  ELSE LET c == ChunkAt(m, curr)
       IN  Reverse([i \in 1..c.n_nodes |->
                     [ev |-> "dtor", x |-> IdAt(m, c.nodes[i].obj)]])
           \o RunDestructors(m, c.prev)

\* clear() that leaves the chain pointers as they were (mutant).
clear_keep_chain(a, m) ==
  [a |-> [a EXCEPT !.mem_blocks = [i \in 1..Len(@) |-> [@[i] EXCEPT !.offset = 0]],
                   !.mem_block_latest_idx = 0],
   events |-> RunDestructors(m, a.destructor_block_latest)]

\* clear() that keeps the first block only (mutant).
clear_shrink(a, m) ==
  [a |-> [a EXCEPT !.destructor_block_latest = NULL,
                   !.destructor_block_tail = NULL,
                   !.mem_blocks = [i \in 1..1 |-> [@[i] EXCEPT !.offset = 0]],
                   !.mem_block_latest_idx = 0],
   events |-> RunDestructors(m, a.destructor_block_latest)]

\* clear() that leaves the active index where it was (mutant).
clear_keep_index(a, m) ==
  [a |-> [a EXCEPT !.destructor_block_latest = NULL,
                   !.destructor_block_tail = NULL,
                   !.mem_blocks = [i \in 1..Len(@) |-> [@[i] EXCEPT !.offset = 0]]],
   events |-> RunDestructors(m, a.destructor_block_latest)]

clear(a, m) ==
  [a |-> [a EXCEPT !.destructor_block_latest = NULL,
                   !.destructor_block_tail = NULL,
                   !.mem_blocks = [i \in 1..Len(@) |-> [@[i] EXCEPT !.offset = 0]],
                   !.mem_block_latest_idx = 0],
   events |-> RunDestructors(m, a.destructor_block_latest)]

\* ~MemBlock of every block of a vector: ::operator delete(buffer).
Buffers(bs) == {[buffer |-> bs[i].buffer, size |-> bs[i].size] : i \in 1..Len(bs)}

FreeEvents(bs) == [i \in 1..Len(bs) |-> [ev |-> "free", x |-> bs[i].buffer]]

InBuffers(c, bufs) ==
  \E b \in bufs : b.buffer <= c.addr /\ c.addr + c.size <= b.buffer + b.size

Release(m, bs) == {c \in m : ~InBuffers(c, Buffers(bs))}

\* The move that gives the destination the default block size (mutant).
MovedInto_default_block_size(o) ==
  [ destructor_block_tail |-> o.destructor_block_tail,
    destructor_block_latest |-> o.destructor_block_latest,
    mem_blocks |-> o.mem_blocks,
    mem_block_latest_idx |-> o.mem_block_latest_idx,
    block_size |-> DEFAULT_BLOCK_SIZE,
    arena_size |-> o.arena_size ]

\* The move that takes the blocks but not the active index (mutant).
MovedInto_stale_index(o) ==
  [ destructor_block_tail |-> o.destructor_block_tail,
    destructor_block_latest |-> o.destructor_block_latest,
    mem_blocks |-> o.mem_blocks,
    mem_block_latest_idx |-> 0,
    block_size |-> o.block_size,
    arena_size |-> o.arena_size ]

\* ArenaV2(ArenaV2&& other): what the new engine holds, and what is left in other.
MovedInto(o) ==
  [ destructor_block_tail |-> o.destructor_block_tail,
    destructor_block_latest |-> o.destructor_block_latest,
    mem_blocks |-> o.mem_blocks,
    mem_block_latest_idx |-> o.mem_block_latest_idx,
    block_size |-> o.block_size,
    arena_size |-> o.arena_size ]

\* The move that leaves the destructor chain in the source as well (mutant).
MovedFrom_keep_chain(o) ==
  [o EXCEPT !.mem_blocks = <<>>,
            !.mem_block_latest_idx = 0,
            !.arena_size = 0]

\* The move that leaves the source's total capacity as it was (mutant).
MovedFrom_keep_size(o) ==
  [o EXCEPT !.destructor_block_latest = NULL,
            !.destructor_block_tail = NULL,
            !.mem_blocks = <<>>,
            !.mem_block_latest_idx = 0]

MovedFrom(o) ==
  [o EXCEPT !.destructor_block_latest = NULL,
            !.destructor_block_tail = NULL,
            !.mem_blocks = <<>>,
            !.mem_block_latest_idx = 0,
            !.arena_size = 0]

\* ------------------------------------------------------ the adapter

\* &arena: the engine objects live at distinct addresses.
AddressOf(e) == IF e = "a" THEN 1 ELSE 2

\* *arena: the engine a pointer refers to.
EngineAt(p) == CHOOSE e \in Engines : AddressOf(e) = p

\* ArenaAllocator<T>(ArenaV2& arena)
ArenaAllocator(e, T) == [arena |-> AddressOf(e), T |-> T]

\* ArenaAllocator<T>(const ArenaAllocator<U>& other), and the copy of an
\* ArenaAllocator<T>.
ArenaAllocatorFrom(other, T) == [arena |-> other.arena, T |-> T]

\* operator== that compares what the engines hold (mutant).
allocator_equal_by_value(x, y) ==
  /\ arena[EngineAt(x.arena)].block_size = arena[EngineAt(y.arena)].block_size
  /\ arena[EngineAt(x.arena)].arena_size = arena[EngineAt(y.arena)].arena_size

\* operator==
allocator_equal(x, y) == x.arena = y.arena

\* operator!=
allocator_not_equal(x, y) == ~allocator_equal(x, y)

\* The record of a call on an adapter: for allocate the count asked for and
\* the pointer returned or the exception thrown, for deallocate its arguments.
NoResult == [ptr |-> NULL, thrown |-> "none", n |-> 0, adapter |-> 0]

\* ArenaAllocator<T>::allocate without the overflow check (mutant).
ArenaAllocator_allocate_unchecked(a, T, n, top, gap) ==
  IF n = 0
  THEN [a |-> a, ptr |-> NULL, thrown |-> "none", rets |-> <<>>, top |-> top]
  ELSE The({ [a |-> r.a, ptr |-> r.ptr, thrown |-> "none",
              rets |-> <<Ret(r, Wrap(n * T.size), T.align, "raw")>>, top |-> r.top]
             : r \in {allocate(a, Wrap(n * T.size), T.align, top, gap)} })

\* ArenaAllocator<T>::allocate that asks for n bytes, not n elements (mutant).
ArenaAllocator_allocate_bytes(a, T, n, top, gap) ==
  IF n = 0
  THEN [a |-> a, ptr |-> NULL, thrown |-> "none", rets |-> <<>>, top |-> top]
  ELSE IF n > WordMax \div T.size
  THEN [a |-> a, ptr |-> NULL, thrown |-> "bad_array_new_length", rets |-> <<>>,
        top |-> top]
  ELSE The({ [a |-> r.a, ptr |-> r.ptr, thrown |-> "none",
              rets |-> <<Ret(r, n, T.align, "raw")>>, top |-> r.top]
             : r \in {allocate(a, n, T.align, top, gap)} })

\* ArenaAllocator<T>::allocate(n) on the engine a the adapter refers to:
\* nullptr for n = 0, bad_array_new_length when n * sizeof(T) overflows,
\* else arena->allocate_raw(n * sizeof(T), alignof(T)).
ArenaAllocator_allocate(a, T, n, top, gap) ==
  IF n = 0
  THEN [a |-> a, ptr |-> NULL, thrown |-> "none", rets |-> <<>>, top |-> top]
  ELSE IF n > WordMax \div T.size
  THEN [a |-> a, ptr |-> NULL, thrown |-> "bad_array_new_length", rets |-> <<>>,
        top |-> top]
  ELSE The({ [a |-> r.a, ptr |-> r.ptr, thrown |-> "none",
              rets |-> <<Ret(r, Wrap(n * T.size), T.align, "raw")>>, top |-> r.top]
             : r \in {allocate(a, Wrap(n * T.size), T.align, top, gap)} })

\* deallocate that gives the bytes back when they are the last ones handed
\* out of the active block (mutant).
ArenaAllocator_deallocate_rewind(a, T, ptr, n) ==
  IF a.mem_blocks = <<>> THEN a
  ELSE The({ IF /\ mb.buffer <= ptr
                /\ ptr + n * T.size = mb.buffer + mb.offset
             THEN [a EXCEPT !.mem_blocks[a.mem_block_latest_idx + 1].offset =
                              ptr - mb.buffer]
             ELSE a
             : mb \in {a.mem_blocks[a.mem_block_latest_idx + 1]} })

\* ArenaAllocator<T>::deallocate(ptr, n): nothing.
ArenaAllocator_deallocate(a, T, ptr, n) == a

\* ------------------------------------------------------- bookkeeping
Counted(cnt, events) ==
  [i \in 1..Len(cnt) |->
     cnt[i] + Cardinality({k \in 1..Len(events) :
                             events[k].ev = "dtor" /\ events[k].x = i})]

Handed(e, rets, id, T) ==
  {[e |-> e, ptr |-> rets[k].ptr, size |-> rets[k].size, kind |-> rets[k].kind,
    id |-> IF rets[k].kind = "chunk" THEN 0 ELSE id,
    dtor |-> rets[k].kind = "obj" /\ ~T.trivial] : k \in 1..Len(rets)}

Reowned(e, o) ==
  {IF r.e = o THEN [r EXCEPT !.e = e] ELSE r : r \in {q \in allocs : q.e # e}}

\* The objects with a destructor that engine e constructed (or took over)
\* since its last reset, in construction order.
RECURSIVE Ascending(_)
Ascending(S) ==
  IF S = {} THEN <<>>
  ELSE LET x == CHOOSE y \in S : \A z \in S : y <= z
       IN  <<x>> \o Ascending(S \ {x})

Objs(e) == Ascending({r.id : r \in {q \in allocs : q.e = e /\ q.dtor}})

Req(op, size, align) == [op |-> op, size |-> size, align |-> align]

NoPrior == [reqs |-> <<>>, nblocks |-> 0, cleared |-> FALSE]

\* The record of an operation: the engine(s) as they were before it, what it
\* returned, the destructor calls and buffer releases it made, in order.
Last(op, e, o, rets, events) ==
  [op |-> op, prev |-> last.op, prev_e |-> last.e, e |-> e, o |-> o,
   rets |-> rets, events |-> events,
   before |-> arena[e], before_o |-> arena[o], objs |-> Objs(e)]

RawT == [name |-> "raw", size |-> 0, align |-> 1, trivial |-> TRUE]

\* ------------------------------------------------------- operations

\* ArenaV2(size)
Construct(e, size, gap) ==
  /\ lifetime[e] = "none"
  /\ \E g \in {add_mem_block(EmptyArena(size), size, heap_top, gap)} :
         /\ arena' = [arena EXCEPT ![e] = g.a]
         /\ heap_top' = g.top
  /\ lifetime' = [lifetime EXCEPT ![e] = "live"]
  /\ n_buffers' = n_buffers + 1
  /\ last' = Last("construct", e, e, <<>>, <<>>)
  /\ UNCHANGED <<adapters, adapter_result, freed, mem, allocs, reqs, prior, next_id, needs_dtor, dtor_count>>

\* ArenaV2()
DefaultConstruct(e, gap) ==
  /\ lifetime[e] = "none"
  /\ \E g \in {add_mem_block(EmptyArena(DEFAULT_BLOCK_SIZE), DEFAULT_BLOCK_SIZE,
                              heap_top, gap)} :
         /\ arena' = [arena EXCEPT ![e] = g.a]
         /\ heap_top' = g.top
  /\ lifetime' = [lifetime EXCEPT ![e] = "live"]
  /\ n_buffers' = n_buffers + 1
  /\ last' = Last("default_construct", e, e, <<>>, <<>>)
  /\ UNCHANGED <<adapters, adapter_result, freed, mem, allocs, reqs, prior, next_id, needs_dtor, dtor_count>>

\* allocate_raw(size, align), after which the caller stores a value there.
\* An engine without a block (moved-from) must not be used for allocation.
AllocateRaw(e, size, align, gap) ==
  /\ lifetime[e] = "live"
  /\ Len(arena[e].mem_blocks) > 0
  /\ \E r \in {allocate(arena[e], size, align, heap_top, gap)} :
       \E rets \in {<<Ret(r, size, align, "raw")>>} :
         /\ arena' = [arena EXCEPT ![e] = r.a]
         /\ heap_top' = r.top
         /\ n_buffers' = n_buffers + Len(r.a.mem_blocks) - Len(arena[e].mem_blocks)
         /\ mem' = Write(mem, Cell(r.ptr, size, "raw", next_id))
         /\ allocs' = allocs \cup Handed(e, rets, next_id, RawT)
         /\ last' = Last("allocate_raw", e, e, rets, <<>>)
  /\ reqs' = [reqs EXCEPT ![e] = Append(@, Req("raw", size, align))]
  /\ next_id' = next_id + 1
  /\ dtor_count' = Append(dtor_count, 0)
  /\ UNCHANGED <<adapters, adapter_result, lifetime, freed, prior, needs_dtor>>

\* create<T>(next_id)
Create(e, T, gap) ==
  /\ lifetime[e] = "live"
  /\ Len(arena[e].mem_blocks) > 0
  /\ \E c \in {create(arena[e], mem, T, next_id, heap_top, gap)} :
         /\ arena' = [arena EXCEPT ![e] = c.a]
         /\ heap_top' = c.top
         /\ n_buffers' = n_buffers + Len(c.a.mem_blocks) - Len(arena[e].mem_blocks)
         /\ mem' = c.m
         /\ allocs' = allocs \cup Handed(e, c.rets, next_id, T)
         /\ last' = Last("create", e, e, c.rets, <<>>)
  /\ reqs' = [reqs EXCEPT ![e] = Append(@, Req(T.name, T.size, T.align))]
  /\ next_id' = next_id + 1
  /\ needs_dtor' = IF T.trivial THEN needs_dtor ELSE needs_dtor \cup {next_id}
  /\ dtor_count' = Append(dtor_count, 0)
  /\ UNCHANGED <<adapters, adapter_result, lifetime, freed, prior>>

\* create<T>(...) with a constructor that throws: nothing is handed to the
\* caller, and no object of the attempted id ever lives.
CreateThrows(e, T, gap) ==
  /\ lifetime[e] = "live"
  /\ Len(arena[e].mem_blocks) > 0
  /\ \E c \in {create_throws(arena[e], mem, T, heap_top, gap)} :
         /\ arena' = [arena EXCEPT ![e] = c.a]
         /\ heap_top' = c.top
         /\ n_buffers' = n_buffers + Len(c.a.mem_blocks) - Len(arena[e].mem_blocks)
         /\ mem' = c.m
         /\ last' = Last("create_throw", e, e, c.rets, <<>>)
  /\ reqs' = [reqs EXCEPT ![e] = Append(@, Req(T.name, T.size, T.align))]
  /\ next_id' = next_id + 1
  /\ dtor_count' = Append(dtor_count, 0)
  /\ UNCHANGED <<adapters, adapter_result, lifetime, freed, allocs, prior, needs_dtor>>

\* clear()
Clear(e) ==
  /\ lifetime[e] = "live"
  /\ \E c \in {clear(arena[e], mem)} :
         /\ arena' = [arena EXCEPT ![e] = c.a]
         /\ dtor_count' = Counted(dtor_count, c.events)
         /\ last' = Last("clear", e, e, <<>>, c.events)
  /\ allocs' = {r \in allocs : r.e # e}
  /\ prior' = [prior EXCEPT ![e] = [reqs |-> reqs[e],
                                    nblocks |-> Len(arena[e].mem_blocks),
                                    cleared |-> TRUE]]
  /\ reqs' = [reqs EXCEPT ![e] = <<>>]
  /\ UNCHANGED <<adapters, adapter_result, lifetime, heap_top, n_buffers, freed, mem, next_id, needs_dtor>>

\* ~ArenaV2(): clear(), then the members go, the blocks with them.
Destroy(e) ==
  /\ lifetime[e] = "live"
  /\ \E c \in {clear(arena[e], mem)}, bs \in {arena[e].mem_blocks} :
         /\ arena' = [arena EXCEPT ![e] = [c.a EXCEPT !.mem_blocks = <<>>]]
         /\ dtor_count' = Counted(dtor_count, c.events)
         /\ freed' = freed \cup Buffers(bs)
         /\ mem' = Release(mem, bs)
         /\ last' = Last("destroy", e, e, <<>>, c.events \o FreeEvents(bs))
  /\ lifetime' = [lifetime EXCEPT ![e] = "dead"]
  /\ allocs' = {r \in allocs : r.e # e}
  /\ reqs' = [reqs EXCEPT ![e] = <<>>]
  /\ prior' = [prior EXCEPT ![e] = NoPrior]
  /\ UNCHANGED <<adapters, adapter_result, heap_top, n_buffers, next_id, needs_dtor>>

\* ArenaV2 e(std::move(o))
MoveConstruct(e, o) ==
  /\ lifetime[e] = "none"
  /\ lifetime[o] = "live"
  /\ arena' = [arena EXCEPT ![e] = MovedInto(arena[o]), ![o] = MovedFrom(arena[o])]
  /\ lifetime' = [lifetime EXCEPT ![e] = "live"]
  /\ allocs' = Reowned(e, o)
  /\ reqs' = [reqs EXCEPT ![e] = reqs[o], ![o] = <<>>]
  /\ prior' = [prior EXCEPT ![e] = NoPrior, ![o] = NoPrior]
  /\ last' = Last("move_construct", e, o, <<>>, <<>>)
  /\ UNCHANGED <<adapters, adapter_result, heap_top, n_buffers, freed, mem, next_id, needs_dtor, dtor_count>>

\* e = std::move(o)
MoveAssign(e, o) ==
  /\ lifetime[e] = "live"
  /\ lifetime[o] = "live"
  /\ IF e = o
     THEN /\ last' = Last("move_assign", e, o, <<>>, <<>>)
          /\ UNCHANGED <<arena, freed, mem, allocs, reqs, prior, dtor_count>>
     ELSE \E c \in {clear(arena[e], mem)}, bs \in {arena[e].mem_blocks} :
              /\ arena' = [arena EXCEPT ![e] = MovedInto(arena[o]),
                                        ![o] = MovedFrom(arena[o])]
              /\ dtor_count' = Counted(dtor_count, c.events)
              /\ freed' = freed \cup Buffers(bs)
              /\ mem' = Release(mem, bs)
              /\ allocs' = Reowned(e, o)
              /\ reqs' = [reqs EXCEPT ![e] = reqs[o], ![o] = <<>>]
              /\ prior' = [prior EXCEPT ![e] = NoPrior, ![o] = NoPrior]
              /\ last' = Last("move_assign", e, o, <<>>, c.events \o FreeEvents(bs))
  /\ UNCHANGED <<adapters, adapter_result, lifetime, heap_top, n_buffers, next_id, needs_dtor>>

\* ArenaAllocator<T> alloc(e)
Bind(e, T) ==
  /\ lifetime[e] = "live"
  /\ adapters' = Append(adapters, [obj |-> ArenaAllocator(e, T), engine |-> e,
                                    from |-> 0])
  /\ adapter_result' = NoResult
  /\ last' = Last("bind", e, e, <<>>, <<>>)
  /\ UNCHANGED <<lifetime, arena, heap_top, n_buffers, freed, mem, allocs, reqs,
                 prior, next_id, needs_dtor, dtor_count>>

\* ArenaAllocator<T> copy(adapters[i]): a copy (same T) or a rebind (other T)
Rebind(i, T) ==
  /\ i \in 1..Len(adapters)
  /\ adapters' = Append(adapters, [obj |-> ArenaAllocatorFrom(adapters[i].obj, T),
                                    engine |-> adapters[i].engine, from |-> i])
  /\ adapter_result' = NoResult
  /\ last' = Last("rebind", EngineAt(adapters[i].obj.arena),
                  EngineAt(adapters[i].obj.arena), <<>>, <<>>)
  /\ UNCHANGED <<lifetime, arena, heap_top, n_buffers, freed, mem, allocs, reqs,
                 prior, next_id, needs_dtor, dtor_count>>

\* adapters[i].allocate(n), after which the caller stores a value there.
AdapterAllocate(i, n, gap) ==
  /\ i \in 1..Len(adapters)
  /\ \E e \in {EngineAt(adapters[i].obj.arena)}, T \in {adapters[i].obj.T} :
       /\ lifetime[e] = "live"
       /\ Len(arena[e].mem_blocks) > 0
       /\ \E c \in {ArenaAllocator_allocate(arena[e], T, n, heap_top, gap)} :
            /\ arena' = [arena EXCEPT ![e] = c.a]
            /\ heap_top' = c.top
            /\ n_buffers' = n_buffers + Len(c.a.mem_blocks) - Len(arena[e].mem_blocks)
            /\ mem' = IF c.rets = <<>> THEN mem
                      ELSE Write(mem, Cell(c.ptr, c.rets[1].size, "raw", next_id))
            /\ allocs' = allocs \cup Handed(e, c.rets, next_id, RawT)
            /\ reqs' = IF c.rets = <<>> THEN reqs
                       ELSE [reqs EXCEPT ![e] =
                               Append(@, Req("raw", c.rets[1].size, c.rets[1].align))]
            /\ adapter_result' = [ptr |-> c.ptr, thrown |-> c.thrown, n |-> n,
                                  adapter |-> i]
            /\ last' = Last("adapter_allocate", e, e, c.rets, <<>>)
  /\ next_id' = next_id + 1
  /\ dtor_count' = Append(dtor_count, 0)
  /\ UNCHANGED <<lifetime, freed, prior, needs_dtor, adapters>>

\* adapters[i].deallocate(ptr, n)
AdapterDeallocate(i, ptr, n) ==
  /\ i \in 1..Len(adapters)
  /\ \E e \in {EngineAt(adapters[i].obj.arena)}, T \in {adapters[i].obj.T} :
       /\ arena' = [arena EXCEPT ![e] = ArenaAllocator_deallocate(arena[e], T, ptr, n)]
       /\ last' = Last("adapter_deallocate", e, e, <<>>, <<>>)
  /\ adapter_result' = [ptr |-> ptr, thrown |-> "none", n |-> n, adapter |-> i]
  /\ UNCHANGED <<lifetime, heap_top, n_buffers, freed, mem, allocs, reqs, prior,
                 next_id, needs_dtor, dtor_count, adapters>>

\* ---------------------------------------------------- specifications
Init ==
  /\ lifetime = [e \in Engines |-> "none"]
  /\ arena = [e \in Engines |-> EmptyArena(0)]
  /\ heap_top = HeapStart
  /\ n_buffers = 0
  /\ freed = {}
  /\ mem = {}
  /\ allocs = {}
  /\ reqs = [e \in Engines |-> <<>>]
  /\ prior = [e \in Engines |-> NoPrior]
  /\ next_id = 1
  /\ needs_dtor = {}
  /\ dtor_count = <<>>
  /\ last = [op |-> "none", prev |-> "none", prev_e |-> "a", e |-> "a", o |-> "a",
             rets |-> <<>>, events |-> <<>>,
             before |-> EmptyArena(0), before_o |-> EmptyArena(0), objs |-> <<>>]
  /\ adapters = <<>>
  /\ adapter_result = NoResult

\* One engine: construction, raw and typed allocation, clear.
Next ==
  \/ \E s \in ConfigSizes, g \in 0..MaxGap : Construct("a", s, g)
  \/ \E s \in RawSizes, al \in RawAligns, g \in 0..MaxGap :
       next_id <= MaxAllocs /\ AllocateRaw("a", s, al, g) /\ n_buffers' <= MaxBlocks
  \/ \E T \in Types, g \in 0..MaxGap :
       next_id <= MaxAllocs /\ Create("a", T, g) /\ n_buffers' <= MaxBlocks
  \/ Clear("a")

Spec == Init /\ [][Next]_vars

\* Two engines: construction, typed allocation, clear, moves, destruction.
\* The buffers are laid out without gaps here.
NextMove ==
  \/ \E e \in Engines, s \in ConfigSizes :
       n_buffers < MaxMoveBlocks /\ Construct(e, s, 0)
  \/ \E e \in Engines : n_buffers < MaxMoveBlocks /\ DefaultConstruct(e, 0)
  \/ \E e \in Engines :
       next_id <= MaxMoveAllocs /\ Create(e, TestStruct, 0)
         /\ n_buffers' <= MaxMoveBlocks
  \/ \E e \in Engines : Clear(e)
  \/ \E e \in Engines : Destroy(e)
  \/ \E e, o \in Engines : MoveConstruct(e, o)
  \/ \E e, o \in Engines : MoveAssign(e, o)

SpecMove == Init /\ [][NextMove]_vars

\* One engine and a long run of objects with a destructor, so that the
\* destructor records span several chunks; one clear() in the run.
NextChain ==
  \/ \E g \in 0..MaxGap : DefaultConstruct("a", g)
  \/ \E g \in 0..MaxGap :
       next_id <= MaxChainObjs /\ Create("a", TestStruct, g)
         /\ n_buffers' <= MaxChainBlocks
  \/ ~prior["a"].cleared /\ Clear("a")

SpecChain == Init /\ [][NextChain]_vars

\* One engine and raw requests of any size a size_t can hold. A buffer that
\* does not fit in the address space is not obtained: ::operator new throws
\* inside a noexcept function and the program ends there.
WideSizes == {8, WordMax - 7, WordMax}

WideAligns == {1, 2}

NextWide ==
  \/ \E s \in ConfigSizes, g \in 0..MaxGap : Construct("a", s, g)
  \/ \E s \in WideSizes, al \in WideAligns, g \in 0..MaxGap :
       next_id <= MaxWideAllocs /\ AllocateRaw("a", s, al, g)
         /\ n_buffers' <= MaxWideBlocks /\ heap_top' <= WordMax + 1

SpecWide == Init /\ [][NextWide]_vars

\* One engine whose objects' constructors may throw.
NextThrow ==
  \/ \E s \in ConfigSizes, g \in 0..MaxGap : Construct("a", s, g)
  \/ \E T \in {IntT, TestStruct}, g \in 0..MaxGap :
       next_id <= MaxThrowAllocs /\ Create("a", T, g) /\ n_buffers' <= MaxBlocks
  \/ \E g \in 0..MaxGap :
       next_id <= MaxThrowAllocs /\ CreateThrows("a", TestStruct, g)
         /\ n_buffers' <= MaxBlocks
  \/ Clear("a")

SpecThrow == Init /\ [][NextThrow]_vars

\* The element counts an adapter of element type T is asked for: none, a
\* few, and the first count whose byte size overflows.
AllocCounts(T) == {0, 1, 5, WordMax \div T.size + 1}

\* Two engines and adapters on them: binding, copying and rebinding,
\* allocate and deallocate through an adapter. The buffers are laid out
\* without gaps here.
NextAdapter ==
  \/ \E e \in Engines, s \in ConfigSizes : Construct(e, s, 0)
  \/ \E e \in Engines : Len(adapters) < MaxAdapters /\ Bind(e, IntT)
  \/ \E i \in 1..Len(adapters), T \in {IntT, DoubleT} :
       Len(adapters) < MaxAdapters /\ Rebind(i, T)
  \/ \E i \in 1..Len(adapters) :
       \E n \in AllocCounts(adapters[i].obj.T) :
         next_id <= MaxAdapterAllocs /\ AdapterAllocate(i, n, 0)
  \/ \E i \in 1..Len(adapters), p \in {r.ptr : r \in allocs} \cup {NULL},
          n \in {0, 5} :
       AdapterDeallocate(i, p, n)

SpecAdapter == Init /\ [][NextAdapter]_vars

\* ------------------------------------------------------------ claims
Contains(b, p, n) == b.buffer <= p /\ p + n <= b.buffer + b.size

OwnedBlocks(e) == {arena[e].mem_blocks[i] : i \in 1..Len(arena[e].mem_blocks)}

AllBlocks == UNION {OwnedBlocks(e) : e \in Engines}

\* The block that was receiving allocations when the last operation began.
ActiveBefore == last.before.mem_blocks[last.before.mem_block_latest_idx + 1]

LastBlock(e) == arena[e].mem_blocks[Len(arena[e].mem_blocks)]

GrewLast == Len(arena[last.e].mem_blocks) > Len(last.before.mem_blocks)

DtorIds(events) ==
  LET idx == Ascending({k \in 1..Len(events) : events[k].ev = "dtor"})
  IN  [k \in 1..Len(idx) |-> events[idx[k]].x]

\* C1: every address that allocate returns, for a caller's request or for a
\* destructor chunk, on the fast path, the padding path or the new-block
\* path, is a multiple of the requested alignment.
C1_AlignedReturn ==
  \A k \in 1..Len(last.rets) : last.rets[k].ptr % last.rets[k].align = 0

\* C1 witness: a raw request answered from a fresh block whose buffer is not
\* aligned to the request.
C1_Witness ==
  /\ last.op = "allocate_raw"
  /\ last.rets[1].path = "new"
  /\ LastBlock(last.e).buffer % last.rets[1].align # 0
  /\ last.rets[1].ptr > LastBlock(last.e).buffer

\* C2: every region handed out since the engine's last reset lies inside one
\* block the engine owns (a non-empty region inside exactly one block), is
\* disjoint from every other such region, and still holds what was written
\* into it.
C2_RegionsValid ==
  \A r \in allocs :
    /\ lifetime[r.e] = "live"
    /\ \E b \in OwnedBlocks(r.e) : Contains(b, r.ptr, r.size)
    /\ r.size > 0 => Cardinality({b \in AllBlocks : Contains(b, r.ptr, r.size)}) = 1
    /\ \A q \in allocs : q # r => ~Overlap(r.ptr, r.size, q.ptr, q.size)
    /\ r.size > 0 =>
         \E c \in mem : c.addr = r.ptr /\ c.size = r.size /\ c.kind = r.kind
                        /\ c.id = r.id

\* C2 witness: regions in two different blocks, a destructor chunk among
\* them, and a raw region written before the engine grew.
C2_Witness ==
  /\ \E r, q \in allocs :
       /\ r.kind = "raw" /\ r.size > 0 /\ q.kind = "chunk" /\ r.id < next_id - 1
       /\ \E b \in AllBlocks : Contains(b, r.ptr, r.size) /\ ~Contains(b, q.ptr, q.size)
  /\ Cardinality(allocs) >= 4

\* C5 (as stated): a raw request larger than the configured block size always
\* adds a block, and its address is aligned.
C5_OversizeGrows ==
  (last.op = "allocate_raw" /\ last.rets[1].size > last.before.block_size)
    => /\ GrewLast
       /\ last.rets[1].ptr % last.rets[1].align = 0

\* C5 (amended): a raw request larger than the capacity of the active block
\* adds a block that holds the whole region, and its address is aligned.
C5_OverCapacityGrows ==
  (last.op = "allocate_raw" /\ last.rets[1].size > ActiveBefore.size)
    => /\ GrewLast
       /\ last.rets[1].ptr # NULL
       /\ last.rets[1].ptr % last.rets[1].align = 0
       /\ Contains(LastBlock(last.e), last.rets[1].ptr, last.rets[1].size)
       /\ arena[last.e].mem_block_latest_idx = Len(arena[last.e].mem_blocks) - 1

\* C5 witness: a request larger than the block size met by a block of its own.
C5_Witness ==
  /\ last.op = "allocate_raw"
  /\ last.rets[1].size > last.before.block_size
  /\ last.rets[1].size > ActiveBefore.size
  /\ GrewLast
  /\ LastBlock(last.e).size > last.before.block_size

\* C6: when the requests made since a clear() are the very requests made
\* before it, the engine has as many blocks as just before the clear().
C6_ReplayWithoutGrowth ==
  \A e \in Engines :
    (lifetime[e] = "live" /\ prior[e].cleared /\ reqs[e] = prior[e].reqs)
      => Len(arena[e].mem_blocks) = prior[e].nblocks

\* C7: after clear() every offset is 0, the active index is 0, the chain is
\* empty, the blocks, the total capacity and the block size are as before;
\* a clear() right after a clear() calls no destructor and changes nothing.
C7_ClearPostcondition ==
  last.op = "clear" =>
    LET a == arena[last.e]
        b == last.before
    IN  /\ \A i \in 1..Len(a.mem_blocks) : a.mem_blocks[i].offset = 0
        /\ a.mem_block_latest_idx = 0
        /\ a.destructor_block_latest = NULL
        /\ a.destructor_block_tail = NULL
        /\ Len(a.mem_blocks) = Len(b.mem_blocks)
        /\ \A i \in 1..Len(a.mem_blocks) :
             /\ a.mem_blocks[i].buffer = b.mem_blocks[i].buffer
             /\ a.mem_blocks[i].size = b.mem_blocks[i].size
        /\ a.arena_size = b.arena_size
        /\ a.block_size = b.block_size
        /\ (last.prev = "clear" /\ last.prev_e = last.e)
             => (last.events = <<>> /\ a = b)

\* C7 witness: a clear() of an engine with several blocks, bytes in use in the
\* active one and a destructor pending.
C7_Witness ==
  /\ last.op = "clear"
  /\ Len(last.before.mem_blocks) > 1
  /\ last.before.mem_block_latest_idx > 0
  /\ ActiveBefore.offset > 0
  /\ last.before.destructor_block_latest # NULL
  /\ last.events # <<>>

Position(seq, x) == CHOOSE k \in 1..Len(seq) : seq[k] = x

Occurrences(seq, x) == Cardinality({k \in 1..Len(seq) : seq[k] = x})

Resets == {"clear", "destroy", "move_assign"}

\* C3: clear() calls the destructor of every object with a destructor that
\* was constructed since the last reset exactly once, and no other, however
\* many chunks the records fill.
C3_EachDestructorOnce ==
  last.op = "clear" =>
    LET ids == DtorIds(last.events)
    IN  /\ Len(ids) = Len(last.objs)
        /\ \A k \in 1..Len(last.objs) : Occurrences(ids, last.objs[k]) = 1

\* C3 witness: a clear() with more objects registered than one chunk holds.
C3_Witness ==
  /\ last.op = "clear"
  /\ Len(last.objs) > DESTRUCTOR_CHUNK_SIZE

\* C4: in clear(), of two registered objects the one constructed later is
\* destroyed first, across chunks as well.
C4_ReverseOrder ==
  last.op = "clear" =>
    LET ids == DtorIds(last.events)
    IN  \A i, j \in 1..Len(last.objs) :
          i < j =>
            /\ Occurrences(ids, last.objs[i]) > 0
            /\ Occurrences(ids, last.objs[j]) > 0
            /\ Position(ids, last.objs[j]) < Position(ids, last.objs[i])

\* C4 witness: a clear() whose chain had two chunks; the newest object went
\* first, the oldest last.
C4_Witness ==
  /\ last.op = "clear"
  /\ last.before.destructor_block_latest # last.before.destructor_block_tail
  /\ Len(last.events) > DESTRUCTOR_CHUNK_SIZE
  /\ last.events[1].x = last.objs[Len(last.objs)]
  /\ last.events[Len(last.events)].x = last.objs[1]

\* The objects whose destructor the chain of engine e still holds.
Pending(e) == DtorIds(RunDestructors(mem, arena[e].destructor_block_latest))

RECURSIVE SumOver(_, _)
SumOver(S, id) ==
  IF S = {} THEN 0
  ELSE LET e == CHOOSE x \in S : TRUE
       IN  Occurrences(Pending(e), id) + SumOver(S \ {e}, id)

\* C8: at every moment each object with a destructor is either pending in
\* the chain of exactly one engine or has had its destructor called exactly
\* once; objects without a destructor never have one called; a reset calls
\* destructors only of objects the engine owned.
C8_DestroyedOnce ==
  /\ \A id \in 1..(next_id - 1) :
       IF id \in needs_dtor
       THEN dtor_count[id] + SumOver(Engines, id) = 1
       ELSE dtor_count[id] = 0 /\ SumOver(Engines, id) = 0
  /\ \A e \in Engines : lifetime[e] # "live" => Pending(e) = <<>>
  /\ last.op \in Resets =>
       \A k \in 1..Len(last.events) :
         last.events[k].ev = "dtor" => Occurrences(last.objs, last.events[k].x) = 1

\* C8 witness: the destination of a move-assignment is destroyed next, and
\* that runs the destructor of an object constructed in the source.
C8_Witness ==
  /\ last.op = "destroy"
  /\ last.prev = "move_assign"
  /\ last.prev_e = last.e
  /\ DtorIds(last.events) # <<>>
  /\ \A id \in needs_dtor : dtor_count[id] = 1

FreedBy(events) ==
  LET idx == Ascending({k \in 1..Len(events) : events[k].ev = "free"})
  IN  [k \in 1..Len(idx) |-> events[idx[k]].x]

TookOver(a, src) ==
  /\ a.mem_blocks = src.mem_blocks
  /\ a.destructor_block_latest = src.destructor_block_latest
  /\ a.destructor_block_tail = src.destructor_block_tail
  /\ a.mem_block_latest_idx = src.mem_block_latest_idx
  /\ a.arena_size = src.arena_size
  /\ a.block_size = src.block_size

\* C9 (as stated): a move-assignment between two engines runs the
\* destination's pending destructors in reverse construction order, takes
\* over the source's state, and releases none of the destination's buffers.
C9_MoveAssignReleasesNothing ==
  (last.op = "move_assign" /\ last.e # last.o) =>
    /\ DtorIds(last.events) = Reverse(last.objs)
    /\ TookOver(arena[last.e], last.before_o)
    /\ FreedBy(last.events) = <<>>

\* C9 (amended): it runs the destination's pending destructors in reverse
\* construction order, none of the source's; only after the last of them are
\* the destination's former buffers released, each once, and no other; the
\* destination then holds the source's state.
C9_MoveAssignClearsThenTakes ==
  (last.op = "move_assign" /\ last.e # last.o) =>
    /\ DtorIds(last.events) = Reverse(last.objs)
    /\ TookOver(arena[last.e], last.before_o)
    /\ \A i, j \in 1..Len(last.events) :
         (last.events[i].ev = "dtor" /\ last.events[j].ev = "free") => i < j
    /\ FreedBy(last.events) =
         [i \in 1..Len(last.before.mem_blocks) |-> last.before.mem_blocks[i].buffer]
    /\ \A i \in 1..Len(last.before_o.mem_blocks) :
         /\ Occurrences(FreedBy(last.events), last.before_o.mem_blocks[i].buffer) = 0
         /\ \A f \in freed : f.buffer # last.before_o.mem_blocks[i].buffer

\* C9 witness: both engines held an object with a destructor and blocks of
\* their own; the destination's ran, the source's is still pending.
C9_Witness ==
  /\ last.op = "move_assign"
  /\ last.e # last.o
  /\ last.objs # <<>>
  /\ Len(last.before.mem_blocks) > 1
  /\ Pending(last.e) # <<>>
  /\ \A k \in 1..Len(Pending(last.e)) : dtor_count[Pending(last.e)[k]] = 0

Moves == {"move_construct", "move_assign"}

\* C10 (as stated): the engine moved from is left with no block, capacity 0,
\* an empty chain, active index 0 and the default block size.
C10_MovedFromIsDefault ==
  (last.op \in Moves /\ last.e # last.o) =>
    LET a == arena[last.o]
    IN  /\ a.mem_blocks = <<>>
        /\ a.arena_size = 0
        /\ a.destructor_block_latest = NULL
        /\ a.destructor_block_tail = NULL
        /\ a.mem_block_latest_idx = 0
        /\ a.block_size = DEFAULT_BLOCK_SIZE

\* C10 (amended): the engine moved from is left with no block, capacity 0, an
\* empty chain, active index 0, and the block size it had before the move.
C10_MovedFromIsEmpty ==
  (last.op \in Moves /\ last.e # last.o) =>
    LET a == arena[last.o]
    IN  /\ a.mem_blocks = <<>>
        /\ a.arena_size = 0
        /\ a.destructor_block_latest = NULL
        /\ a.destructor_block_tail = NULL
        /\ a.mem_block_latest_idx = 0
        /\ a.block_size = last.before_o.block_size

\* C10 witness: a move from an engine with several blocks, a pending
\* destructor and a block size other than the default.
C10_Witness ==
  /\ last.op \in Moves
  /\ last.e # last.o
  /\ Len(last.before_o.mem_blocks) > 1
  /\ last.before_o.destructor_block_latest # NULL
  /\ last.before_o.mem_block_latest_idx > 0
  /\ last.before_o.block_size # DEFAULT_BLOCK_SIZE
\* The element type of the adapter the last adapter call was made on.
ResultT == adapters[adapter_result.adapter].obj.T

\* C11: two adapters, of any element types, compare equal exactly when they
\* were bound to the same engine object; != is the negation of ==; a copy or
\* rebind of an adapter compares equal to it.
C11_EqualIffSameEngine ==
  \A i, j \in 1..Len(adapters) :
    /\ allocator_equal(adapters[i].obj, adapters[j].obj)
         <=> (adapters[i].engine = adapters[j].engine)
    /\ allocator_not_equal(adapters[i].obj, adapters[j].obj)
         <=> (adapters[i].engine # adapters[j].engine)
    /\ adapters[i].from = j => allocator_equal(adapters[i].obj, adapters[j].obj)

\* C11 witness: an adapter, its rebind to another element type, and an
\* adapter on a second engine of the same block size and capacity.
C11_Witness ==
  \E i, j, k \in 1..Len(adapters) :
    /\ adapters[j].from = i
    /\ adapters[j].obj.T # adapters[i].obj.T
    /\ allocator_equal(adapters[i].obj, adapters[j].obj)
    /\ adapters[k].engine # adapters[i].engine
    /\ arena[adapters[k].engine].block_size = arena[adapters[i].engine].block_size
    /\ arena[adapters[k].engine].arena_size = arena[adapters[i].engine].arena_size
    /\ allocator_not_equal(adapters[i].obj, adapters[k].obj)

\* C12: allocate(n) with n * sizeof(T) beyond the largest size_t throws
\* bad_array_new_length, asks the engine for nothing and leaves it as it was.
C12_OverflowThrows ==
  (last.op = "adapter_allocate" /\ adapter_result.n * ResultT.size > WordMax) =>
    /\ adapter_result.thrown = "bad_array_new_length"
    /\ last.rets = <<>>
    /\ arena[last.e] = last.before

\* C12 witness: the smallest overflowing count, whose wrapped byte size is 0,
\* asked of an engine that has bytes in use.
C12_Witness ==
  /\ last.op = "adapter_allocate"
  /\ adapter_result.thrown = "bad_array_new_length"
  /\ Wrap(adapter_result.n * ResultT.size) = 0
  /\ ActiveBefore.offset > 0

\* C13 (as stated): allocate(n) with n * sizeof(T) in range makes exactly one
\* request to the engine, for n * sizeof(T) bytes aligned to alignof(T), and
\* returns the engine's pointer.
C13_ForwardsOneRequest ==
  (last.op = "adapter_allocate" /\ adapter_result.n * ResultT.size <= WordMax) =>
    /\ adapter_result.thrown = "none"
    /\ Len(last.rets) = 1
    /\ last.rets[1].size = adapter_result.n * ResultT.size
    /\ last.rets[1].align = ResultT.align
    /\ adapter_result.ptr = last.rets[1].ptr

\* C13 (amended): so it is for n >= 1; allocate(0) returns a null pointer,
\* asks the engine for nothing and leaves it as it was.
C13_ForwardsOneRequestUnlessZero ==
  (last.op = "adapter_allocate" /\ adapter_result.n * ResultT.size <= WordMax) =>
    /\ adapter_result.thrown = "none"
    /\ adapter_result.n > 0 =>
         /\ Len(last.rets) = 1
         /\ last.rets[1].size = adapter_result.n * ResultT.size
         /\ last.rets[1].align = ResultT.align
         /\ adapter_result.ptr = last.rets[1].ptr
         /\ adapter_result.ptr # NULL
    /\ adapter_result.n = 0 =>
         /\ last.rets = <<>>
         /\ adapter_result.ptr = NULL
         /\ arena[last.e] = last.before

\* C13 witness: a request for several doubles through a rebound adapter that
\* the engine met with a new block.
C13_Witness ==
  /\ last.op = "adapter_allocate"
  /\ adapter_result.n > 1
  /\ adapters[adapter_result.adapter].from # 0
  /\ ResultT.size # ResultT.align * adapter_result.n
  /\ Len(last.rets) = 1
  /\ last.rets[1].path = "new"
  /\ adapter_result.ptr = last.rets[1].ptr

\* C14: deallocate(ptr, n) throws nothing and leaves the engine as it was:
\* blocks, offsets, active index, capacity and chain; no region is handed out
\* twice, deallocated or not.
C14_DeallocateChangesNothing ==
  /\ last.op = "adapter_deallocate" =>
       /\ adapter_result.thrown = "none"
       /\ arena[last.e] = last.before
  /\ \A r, q \in allocs : r # q => ~Overlap(r.ptr, r.size, q.ptr, q.size)

\* C14 witness: deallocate of exactly the bytes handed out last by the
\* active block.
C14_Witness ==
  /\ last.op = "adapter_deallocate"
  /\ adapter_result.n > 0
  /\ adapter_result.ptr # NULL
  /\ adapter_result.ptr + adapter_result.n * ResultT.size
       = ActiveBefore.buffer + ActiveBefore.offset
\* The operations that allocate, and those that make one request to allocate.
AllocOps == {"allocate_raw", "create"}

Single == last.op \in AllocOps /\ Len(last.rets) = 1

\* The type the last create was for.
CreatedT ==
  CHOOSE T \in Types : T.name = reqs[last.e][Len(reqs[last.e])].op

\* The smallest multiple of al that is not below x.
CeilTo(x, al) == ((x + al - 1) \div al) * al

\* The address the active block would have handed out next when the last
\* operation began.
CurrBefore == ActiveBefore.buffer + ActiveBefore.offset

\* The single request of the last operation fits in the block that was active.
FitsBefore ==
  CeilTo(CurrBefore, last.rets[1].align) + last.rets[1].size
    <= ActiveBefore.buffer + ActiveBefore.size

ActiveNow == arena[last.e].mem_blocks[arena[last.e].mem_block_latest_idx + 1]

\* C15: create of a trivially destructible T makes one allocation, of
\* sizeof(T) bytes aligned to alignof(T), and leaves the chain as it was
\* (head, tail, records); no destructor is ever called for such an object.
C15_TrivialRegistersNothing ==
  /\ (last.op = "create" /\ CreatedT.trivial) =>
       /\ Len(last.rets) = 1
       /\ last.rets[1].kind = "obj"
       /\ last.rets[1].size = CreatedT.size
       /\ last.rets[1].align = CreatedT.align
       /\ arena[last.e].destructor_block_latest = last.before.destructor_block_latest
       /\ arena[last.e].destructor_block_tail = last.before.destructor_block_tail
       /\ Pending(last.e) = Reverse(last.objs)
       /\ \A i \in 1..Len(arena[last.e].mem_blocks) :
            i # arena[last.e].mem_block_latest_idx + 1 =>
              /\ i <= Len(last.before.mem_blocks)
              /\ arena[last.e].mem_blocks[i] = last.before.mem_blocks[i]
       /\ ActiveNow.buffer + ActiveNow.offset = last.rets[1].ptr + last.rets[1].size
  /\ \A id \in 1..(next_id - 1) : id \notin needs_dtor => dtor_count[id] = 0

\* C15 witness: an int or double created while a destructor is pending.
C15_Witness ==
  /\ last.op = "create"
  /\ CreatedT.trivial
  /\ last.objs # <<>>
  /\ last.before.destructor_block_latest # NULL

\* C16: a create whose constructor throws makes its one allocation and no
\* other, leaves the chain as it was (head, tail, records) and keeps the
\* bytes: the offset stands past them; every destructor a clear() calls is
\* that of a constructed object.
C16_ThrowRegistersNothing ==
  /\ last.op = "create_throw" =>
       /\ Len(last.rets) = 1
       /\ arena[last.e].destructor_block_latest = last.before.destructor_block_latest
       /\ arena[last.e].destructor_block_tail = last.before.destructor_block_tail
       /\ Pending(last.e) = Reverse(last.objs)
       /\ ActiveNow.buffer + ActiveNow.offset = last.rets[1].ptr + last.rets[1].size
       /\ ActiveNow.offset >= last.rets[1].size
       /\ \A i \in 1..Len(last.before.mem_blocks) :
            arena[last.e].mem_blocks[i].offset >= last.before.mem_blocks[i].offset
  /\ last.op = "clear" =>
       \A k \in 1..Len(last.events) :
         /\ last.events[k].x \in needs_dtor
         /\ Occurrences(last.objs, last.events[k].x) = 1
  /\ \A id \in 1..(next_id - 1) : id \notin needs_dtor => dtor_count[id] = 0

\* C16 witness: a clear() right after a throwing create that followed the
\* construction of an object with a destructor.
C16_Witness ==
  /\ last.op = "clear"
  /\ last.prev = "create_throw"
  /\ last.events # <<>>
  /\ ActiveBefore.offset > 0
  /\ Cardinality(needs_dtor) < next_id - 1

\* C17: every address returned is non-null; a single request takes the
\* new-block path exactly when it does not fit in the active block after
\* padding, and then one block of max(size + align - 1, block size) bytes is
\* appended, becomes the active block and holds the region.
C17_NewBlockAlwaysSucceeds ==
  /\ \A k \in 1..Len(last.rets) : last.rets[k].ptr # NULL
  /\ Single =>
       /\ last.rets[1].path = "new" <=> ~FitsBefore
       /\ last.rets[1].path = "new" =>
            /\ Len(arena[last.e].mem_blocks) = Len(last.before.mem_blocks) + 1
            /\ LastBlock(last.e).size =
                 Max(last.rets[1].size + last.rets[1].align - 1, last.before.block_size)
            /\ arena[last.e].mem_block_latest_idx = Len(last.before.mem_blocks)
            /\ Contains(LastBlock(last.e), last.rets[1].ptr, last.rets[1].size)

\* C17 witness: a request with an alignment the new buffer does not have,
\* larger than the block size, met by the new block.
C17_Witness ==
  /\ Single
  /\ last.rets[1].path = "new"
  /\ last.rets[1].size > last.before.block_size
  /\ LastBlock(last.e).buffer % last.rets[1].align # 0
  /\ LastBlock(last.e).size = last.rets[1].size + last.rets[1].align - 1

\* C18: a single request that fits in the active block gets the smallest
\* multiple of align not below buffer + offset, and the offset moves by the
\* padding plus the size; when the fast path served it, the padding path
\* would have given the same address and offset.
C18_SmallestAlignedAddress ==
  (Single /\ FitsBefore) =>
    /\ last.rets[1].path \in {"fast", "pad"}
    /\ last.rets[1].path = "fast" <=> CurrBefore % last.rets[1].align = 0
    /\ last.rets[1].ptr = CeilTo(CurrBefore, last.rets[1].align)
    /\ arena[last.e].mem_block_latest_idx = last.before.mem_block_latest_idx
    /\ ActiveNow.offset =
         ActiveBefore.offset + (last.rets[1].ptr - CurrBefore) + last.rets[1].size
    /\ last.rets[1].path = "fast" =>
         allocate_from_mem_block(ActiveBefore, last.rets[1].size, last.rets[1].align)
           = [mb |-> ActiveNow, ptr |-> last.rets[1].ptr]

\* C18 witness: a request served by the padding path with padding > 0.
C18_Witness ==
  /\ Single
  /\ last.rets[1].path = "pad"
  /\ last.rets[1].ptr > CurrBefore
  /\ last.rets[1].size > 0
  /\ ActiveBefore.offset > 0

\* C19: every block's offset is at most its capacity; an allocating
\* operation lowers no block's offset and changes no buffer or capacity, and
\* a request that did not fit leaves the block it was tried on as it was.
C19_OffsetsOnlyGrow ==
  /\ \A b \in AllBlocks : b.offset <= b.size
  /\ last.op \in AllocOps =>
       \A i \in 1..Len(last.before.mem_blocks) :
         /\ arena[last.e].mem_blocks[i].offset >= last.before.mem_blocks[i].offset
         /\ arena[last.e].mem_blocks[i].buffer = last.before.mem_blocks[i].buffer
         /\ arena[last.e].mem_blocks[i].size = last.before.mem_blocks[i].size
  /\ (Single /\ last.rets[1].path = "new") =>
       arena[last.e].mem_blocks[last.before.mem_block_latest_idx + 1] = ActiveBefore

\* C19 witness: a request that did not fit in a partly used active block.
C19_Witness ==
  /\ Single
  /\ last.rets[1].path = "new"
  /\ ActiveBefore.offset > 0
  /\ ActiveBefore.offset < ActiveBefore.size

\* C20: an allocating operation does not lower the active index, changes no
\* block before the one that was active, and hands out regions only from the
\* block that was active or a later one.
C20_ActiveIndexOnlyGrows ==
  last.op \in AllocOps =>
    /\ arena[last.e].mem_block_latest_idx >= last.before.mem_block_latest_idx
    /\ \A i \in 1..last.before.mem_block_latest_idx :
         arena[last.e].mem_blocks[i] = last.before.mem_blocks[i]
    /\ \A k \in 1..Len(last.rets) :
         \E i \in (last.before.mem_block_latest_idx + 1)..Len(arena[last.e].mem_blocks) :
           Contains(arena[last.e].mem_blocks[i], last.rets[k].ptr, last.rets[k].size)

\* C20 witness: a request that an earlier, no longer active block has room
\* for is served by the active block.
C20_Witness ==
  /\ Single
  /\ last.before.mem_block_latest_idx > 0
  /\ last.rets[1].size > 0
  /\ last.rets[1].path # "new"
  /\ \E i \in 1..last.before.mem_block_latest_idx :
       allocate_from_mem_block(last.before.mem_blocks[i], last.rets[1].size,
                               last.rets[1].align).ptr # NULL

\* The getters of ArenaV2.
get_arena_size(a) == a.arena_size

get_single_block_size(a) == a.block_size

get_number_of_allocated_blocks(a) == Len(a.mem_blocks)

RECURSIVE SumSizes(_)
SumSizes(bs) == IF bs = <<>> THEN 0 ELSE Head(bs).size + SumSizes(Tail(bs))

RECURSIVE CountBlocks(_)
CountBlocks(S) ==
  IF S = {} THEN 0
  ELSE LET e == CHOOSE x \in S : TRUE
       IN  get_number_of_allocated_blocks(arena[e]) + CountBlocks(S \ {e})

Constructions == {"construct", "default_construct"}

\* C21: for every live engine the reported total capacity is the sum of the
\* capacities of its blocks; the reported block counts add up to the buffers
\* obtained and not given back, no buffer being in two engines; an engine
\* just constructed has one block, of the configured block size.
C21_CapacityIsSumOfBlocks ==
  /\ \A e \in Engines :
       lifetime[e] = "live" =>
         get_arena_size(arena[e]) = SumSizes(arena[e].mem_blocks)
  /\ CountBlocks({e \in Engines : lifetime[e] = "live"})
       = n_buffers - Cardinality(freed)
  /\ Cardinality({b.buffer : b \in AllBlocks})
       = CountBlocks({e \in Engines : lifetime[e] = "live"})
  /\ last.op \in Constructions =>
       /\ get_number_of_allocated_blocks(arena[last.e]) = 1
       /\ arena[last.e].mem_blocks[1].size = get_single_block_size(arena[last.e])
       /\ get_arena_size(arena[last.e]) = get_single_block_size(arena[last.e])

\* C21 witness: an engine that grew to several blocks of different
\* capacities, was cleared and then moved into another engine.
C21_Witness ==
  /\ last.op \in Moves
  /\ last.e # last.o
  /\ get_number_of_allocated_blocks(arena[last.e]) >= 2
  /\ arena[last.e].mem_blocks[1].size # arena[last.e].mem_blocks[2].size
  /\ get_arena_size(arena[last.e]) > get_single_block_size(arena[last.e])
  /\ get_number_of_allocated_blocks(arena[last.o]) = 0
  /\ get_arena_size(arena[last.o]) = 0

\* The blocks engine last.e had before the last operation are still its
\* first blocks, at the same addresses, with the same capacities, not freed.
KeptBlocks ==
  /\ get_number_of_allocated_blocks(arena[last.e]) >= Len(last.before.mem_blocks)
  /\ get_arena_size(arena[last.e]) >= last.before.arena_size
  /\ \A i \in 1..Len(last.before.mem_blocks) :
       /\ arena[last.e].mem_blocks[i].buffer = last.before.mem_blocks[i].buffer
       /\ arena[last.e].mem_blocks[i].size = last.before.mem_blocks[i].size
       /\ \A f \in freed : f.buffer # last.before.mem_blocks[i].buffer

\* C22 (as stated): under allocation, construction, clear and being the
\* destination of a move-assignment the engine's block count and total
\* capacity do not decrease and none of its blocks is freed or resized.
C22_BlocksAppendOnly ==
  last.op \in AllocOps \cup {"clear", "move_assign"} => KeptBlocks

\* C22 (amended): the same under allocation, construction and clear; the
\* destination of a move-assignment from another engine has every one of its
\* former blocks freed and holds the source's block sequence instead.
C22_BlocksAppendOnlyUntilAssigned ==
  /\ last.op \in AllocOps \cup {"clear"} => KeptBlocks
  /\ (last.op = "move_assign" /\ last.e = last.o) => KeptBlocks
  /\ (last.op = "move_assign" /\ last.e # last.o) =>
       /\ arena[last.e].mem_blocks = last.before_o.mem_blocks
       /\ get_arena_size(arena[last.e]) = last.before_o.arena_size
       /\ \A i \in 1..Len(last.before.mem_blocks) :
            \E f \in freed : f.buffer = last.before.mem_blocks[i].buffer
       /\ \A i \in 1..Len(last.before_o.mem_blocks) :
            \A f \in freed : f.buffer # last.before_o.mem_blocks[i].buffer

\* C22 witness: an engine that grew to two blocks is the destination of a
\* move-assignment from an engine of one block.
C22_Witness ==
  /\ last.op = "move_assign"
  /\ last.e # last.o
  /\ Len(last.before.mem_blocks) = 2
  /\ get_number_of_allocated_blocks(arena[last.e]) = 1
  /\ get_arena_size(arena[last.e]) < last.before.arena_size

\* The last operation left the configured block size of the engine it was
\* called on, and of the engine it took as argument, as it was.
SameBlockSize ==
  /\ get_single_block_size(arena[last.e]) = last.before.block_size
  /\ get_single_block_size(arena[last.o]) = last.before_o.block_size

\* C23 (as stated): no operation after the construction of an engine changes
\* its configured block size; an engine constructed by a move has its
\* source's, and the source keeps its own.
C23_BlockSizeFixed ==
  /\ last.op \in AllocOps \cup {"clear", "move_assign"} => SameBlockSize
  /\ last.op = "move_construct" =>
       /\ get_single_block_size(arena[last.e]) = last.before_o.block_size
       /\ get_single_block_size(arena[last.o]) = last.before_o.block_size

\* C23 (amended): as stated, except that the destination of a
\* move-assignment has the configured block size of the source afterwards.
C23_BlockSizeFixedUntilAssigned ==
  /\ last.op \in AllocOps \cup {"clear"} => SameBlockSize
  /\ last.op \in Moves =>
       /\ get_single_block_size(arena[last.e]) = last.before_o.block_size
       /\ get_single_block_size(arena[last.o]) = last.before_o.block_size

\* C23 witness: an engine configured with one block size is the destination
\* of a move-assignment from an engine configured with another, which has
\* grown and holds objects.
C23_Witness ==
  /\ last.op = "move_assign"
  /\ last.e # last.o
  /\ last.before.block_size # last.before_o.block_size
  /\ get_single_block_size(arena[last.e]) # last.before.block_size
  /\ get_number_of_allocated_blocks(arena[last.e]) >= 2
  /\ Pending(last.e) # <<>>

\* The chunks of a chain, from the head along the prev pointers.
RECURSIVE Chain(_, _)
Chain(m, p) ==
  IF p = NULL THEN <<>> ELSE <<p>> \o Chain(m, ChunkAt(m, p).prev)

\* The chunks the last operation took from the arena.
NewChunks == {k \in 1..Len(last.rets) : last.rets[k].kind = "chunk"}

\* C24: the chain is empty exactly when the tail is null; otherwise it ends
\* at the tail, every chunk behind the head holds DESTRUCTOR_CHUNK_SIZE
\* records, the head holds between 1 and DESTRUCTOR_CHUNK_SIZE, and the
\* records read from the chain are those of the registered objects, none
\* altered since it was stored. Registering a destructor takes a new chunk,
\* linked in front of the former head, exactly when the chain was empty or
\* the former head was full.
C24_ChainShape ==
  /\ \A e \in Engines :
       LET a == arena[e]
           ch == Chain(mem, a.destructor_block_latest)
       IN  /\ (a.destructor_block_latest = NULL) <=> (a.destructor_block_tail = NULL)
           /\ (Objs(e) = <<>>) <=> (a.destructor_block_latest = NULL)
           /\ ch # <<>> => ch[Len(ch)] = a.destructor_block_tail
           /\ \A k \in 1..Len(ch) :
                LET c == ChunkAt(mem, ch[k])
                IN  /\ c # NoChunk
                    /\ Len(c.nodes) = c.n_nodes
                    /\ c.n_nodes \in 1..DESTRUCTOR_CHUNK_SIZE
                    /\ k > 1 => c.n_nodes = DESTRUCTOR_CHUNK_SIZE
           /\ Pending(e) = Reverse(Objs(e))
  /\ (last.op = "create" /\ ~CreatedT.trivial) =>
       LET a == arena[last.e]
           full == Len(last.objs) % DESTRUCTOR_CHUNK_SIZE = 0
       IN  /\ (last.before.destructor_block_latest = NULL) <=> (last.objs = <<>>)
           /\ (NewChunks # {}) <=> full
           /\ full =>
                /\ Cardinality(NewChunks) = 1
                /\ \A k \in NewChunks : a.destructor_block_latest = last.rets[k].ptr
                /\ ChunkAt(mem, a.destructor_block_latest).prev
                     = last.before.destructor_block_latest
                /\ ChunkAt(mem, a.destructor_block_latest).n_nodes = 1
           /\ ~full =>
                /\ a.destructor_block_latest = last.before.destructor_block_latest
                /\ a.destructor_block_tail = last.before.destructor_block_tail

\* C24 witness: a record is stored into a second chunk, after the first
\* took its last record.
C24_Witness ==
  /\ last.op = "create"
  /\ Len(last.objs) > DESTRUCTOR_CHUNK_SIZE
  /\ NewChunks = {}
  /\ Len(Chain(mem, arena[last.e].destructor_block_latest)) = 2
  /\ arena[last.e].destructor_block_latest # arena[last.e].destructor_block_tail
  /\ ChunkAt(mem, arena[last.e].destructor_block_tail).n_nodes = DESTRUCTOR_CHUNK_SIZE
  /\ ChunkAt(mem, arena[last.e].destructor_block_latest).n_nodes = 2

\* The n bytes at p were handed out by engine e (or by the engine whose
\* blocks e took over) since the last reset, as a region of the given kind;
\* they lie in the used part of a block e owns, in no buffer that was given
\* back, and no other region handed out since shares a byte with them.
LiveRegion(e, p, n, kind) ==
  /\ \E r \in allocs : r.e = e /\ r.ptr = p /\ r.kind = kind /\ r.size = n
  /\ \E b \in OwnedBlocks(e) :
       Contains(b, p, n) /\ p + n <= b.buffer + b.offset
  /\ \A o \in Engines \ {e} : \A b \in OwnedBlocks(o) : ~Overlap(b.buffer, b.size, p, n)
  /\ \A f \in freed : ~Overlap(f.buffer, f.size, p, n)
  /\ \A r \in allocs : (r.ptr # p \/ r.e # e) => ~Overlap(r.ptr, r.size, p, n)

\* C25: every chunk reachable from the head of an engine's chain, and every
\* object recorded in it, is a region that engine handed out since its last
\* reset, inside a block it owns now; an engine that is not live has an
\* empty chain.
C25_ChainInOwnedMemory ==
  \A e \in Engines :
    /\ lifetime[e] # "live" => arena[e].destructor_block_latest = NULL
    /\ LET ch == Chain(mem, arena[e].destructor_block_latest)
       IN  \A k \in 1..Len(ch) :
             /\ LiveRegion(e, ch[k], SizeofDestructorChunk, "chunk")
             /\ LET c == ChunkAt(mem, ch[k])
                IN  \A i \in 1..c.n_nodes :
                      /\ IdAt(mem, c.nodes[i].obj) # 0
                      /\ \E T \in Types :
                           /\ T.name = c.nodes[i].fn
                           /\ LiveRegion(e, c.nodes[i].obj, T.size, "obj")

\* C25 witness: an engine whose chain was not empty is the destination of a
\* move-assignment from an engine whose chain was not empty either; its
\* former blocks are freed and its chain is now the source's.
C25_Witness ==
  /\ last.op = "move_assign"
  /\ last.e # last.o
  /\ last.before.destructor_block_latest # NULL
  /\ last.before_o.destructor_block_latest # NULL
  /\ arena[last.e].destructor_block_latest = last.before_o.destructor_block_latest
  /\ arena[last.o].destructor_block_latest = NULL
  /\ \E f \in freed :
       Overlap(f.buffer, f.size, last.before.destructor_block_latest,
               SizeofDestructorChunk)

\* C26: whatever size_t value the size of a raw request is, a region that
\* allocate_raw returns lies, all size bytes of it, within the capacity of
\* one block of the engine, and the request lowers the offset of no block.
C26_NoWrapAroundFit ==
  (last.op = "allocate_raw" /\ last.rets[1].ptr # NULL) =>
    /\ \E b \in OwnedBlocks(last.e) :
         Contains(b, last.rets[1].ptr, last.rets[1].size)
    /\ \A i \in 1..Len(last.before.mem_blocks) :
         arena[last.e].mem_blocks[i].offset >= last.before.mem_blocks[i].offset
====
